---------------------------- MODULE Spec2Model ----------------------------
(***************************************************************************)
(* PWM audio driver (components/pwm_audio/pwm_audio.c): the ring buffer,   *)
(* the semaphore handshake between pwm_audio_write and timer_group_isr,    *)
(* the sample conversion and the session state.                            *)
(*                                                                         *)
(* Granularity.  One API caller (the application task) calls the public    *)
(* functions one after the other.  timer_group_isr runs whenever the timer *)
(* is counting with its interrupt enabled; it can fire between any two     *)
(* steps of the caller.  The driver builds for the dual-core ESP32 (lines  *)
(* 32-44), where the caller may run on the other core, so the steps of one *)
(* handler invocation interleave with the caller's steps as well.  A step  *)
(* is one rb_* call, one access to is_give or one semaphore operation;     *)
(* the handler's rb_get_count loads the volatile head twice (lines 174 and *)
(* 175), and these are two steps.  SpecRace also separates the load of    *)
(* tail in rb_read_byte (line 195) from its store (line 211), the two      *)
(* accesses between which the rb_flush of pwm_audio_stop can fall.         *)
(***************************************************************************)
EXTENDS Integers, Sequences, FiniteSets, TLC

(***************************************************************************)
(* Program constants and model bounds                                      *)
(***************************************************************************)

\* #define BUFFER_MIN_SIZE (256UL), scaled down for the model.  What the code
\* relies on is kept: BUFFER_MIN_SIZE >= 3, so that "free > BUFFER_MIN_SIZE"
\* leaves room for one aligned group of 4 bytes, and rb_create's minimum
\* length BUFFER_MIN_SIZE << 2.
BUFFER_MIN_SIZE == 3

\* cfg->ringbuf_len: the minimum rb_create accepts, BUFFER_MIN_SIZE << 2.
ringbuf_len == BUFFER_MIN_SIZE * 4

CHANNEL_LEFT_MASK == 1
CHANNEL_RIGHT_MASK == 2
SAMPLE_RATE_MAX == 48000
SAMPLE_RATE_MIN == 8000

\* uint16_t and uint8_t arithmetic
U16(x) == x % 65536
U8(x) == x % 256

\* x >> n and x << n on non-negative values
Shr(x, n) == x \div (2 ^ n)
Shl(x, n) == x * (2 ^ n)

\* uint32_t.  TLC's integers have 32 bits, so a uint32_t is held as its
\* two's-complement representative: x in 0 .. 2^31-1 is itself, a negative x
\* stands for x + 2^32.  Sums and differences of small values need no
\* reduction; the order and the right shift are the unsigned ones.
U32Gt(a, b) == IF (a < 0) = (b < 0) THEN a > b ELSE a < 0
Shr32(x, n) == IF x >= 0 THEN x \div (2 ^ n) ELSE (2 ^ (32 - n)) + (x \div (2 ^ n))

\* mask & bit, for the single-bit masks of the channel mask
HasBit(mask, bit) == (mask \div bit) % 2 = 1

\* rb      the ringBuf: buf, head, tail, size, is_give, semaphore_rb (0 or 1)
\* handle  the pwm_audio_handle fields the driver reads after init
\* timer   the hardware timer: counting, interrupt enabled
\* ledc    the two duty registers
\* isr     timer_group_isr: its position and its static locals
\* task    the API caller: its position and the locals of pwm_audio_write
\* api     the last API call that returned, with its result
\* obs     history kept for the properties (no action reads it)
VARIABLES rb, handle, timer, ledc, isr, task, api, obs

vars == <<rb, handle, timer, ledc, isr, task, api, obs>>

(***************************************************************************)
(* Ring buffer (lines 135-232)                                             *)
(***************************************************************************)

\* rb_create: the buffer is not initialised by malloc; the model starts it
\* at 0 (no slot is read before it is written).
rb_create(size) ==
  [buf |-> [i \in 0..(size - 1) |-> 0], head |-> 0, tail |-> 0, size |-> size,
   is_give |-> 0, semaphore_rb |-> 0]

\* rb_get_count with the two loads of the volatile head made explicit: ge is
\* the outcome of "rb->head >= tail" (first load), head2 the second load.
rb_count_from(size, tail, ge, head2) ==
  IF ge THEN head2 - tail ELSE size - (tail - head2)

rb_get_count(r) == rb_count_from(r.size, r.tail, r.head >= r.tail, r.head)

rb_free_from(size, count) == size - count - 1

rb_get_free(r) == rb_free_from(r.size, rb_get_count(r))

rb_flush(r) == [r EXCEPT !.tail = 0, !.head = 0]

\* A read that does not compare tail with head: it returns the byte at tail
\* and advances tail whether or not the buffer holds data.
rb_read_byte_nocheck(r, outdata) ==
  LET tail == IF r.tail + 1 = r.size THEN 0 ELSE r.tail + 1
  IN [res |-> "ESP_OK", outdata |-> r.buf[r.tail],
      rb |-> [r EXCEPT !.tail = tail]]

\* rb_read_byte: *outdata is written only when a byte is returned.
rb_read_byte(r, outdata) ==
  IF r.tail = r.head
  THEN [res |-> "ESP_FAIL", outdata |-> outdata, rb |-> r]
  ELSE LET tail == IF r.tail + 1 = r.size THEN 0 ELSE r.tail + 1
       IN [res |-> "ESP_OK", outdata |-> r.buf[r.tail],
           rb |-> [r EXCEPT !.tail = tail]]

\* A write that never reports the buffer full (overwrites unread data).
rb_write_byte_nocheck(r, indata) ==
  LET next_head == IF r.head + 1 = r.size THEN 0 ELSE r.head + 1
  IN [res |-> "ESP_OK",
      rb |-> [r EXCEPT !.buf[r.head] = indata, !.head = next_head]]

rb_write_byte(r, indata) ==
  LET next_head == IF r.head + 1 = r.size THEN 0 ELSE r.head + 1
  IN IF next_head = r.tail
     THEN [res |-> "ESP_FAIL", rb |-> r]
     ELSE [res |-> "ESP_OK",
           rb |-> [r EXCEPT !.buf[r.head] = indata, !.head = next_head]]

(***************************************************************************)
(* Sample conversion of pwm_audio_write (lines 559-648)                    *)
(***************************************************************************)

\* The duty value pwm_audio_write computes for one source sample s, a signed
\* integer of bits_per_sample bits.  8 bit: uint8_t temp = inbuf[i] + 0x7f,
\* expanded by << -shift when the resolution is above 8.  16 bit: uint16_t
\* value = temp + 0x7fff, then >>= shift.  32 bit: uint32_t value = temp +
\* 0x7fffffff, then >>= shift (the int32_t addition overflows for temp > 0,
\* which is undefined: the inputs of the model stay at temp <= 0).
pwm_value(bits, res, s) ==
  CASE bits = 8 -> IF bits - res < 0
                   THEN U16(Shl(U8(U8(s) + 127), res - bits))
                   ELSE U8(U8(s) + 127)
    [] bits = 16 -> Shr(U16(s + 32767), bits - res)
    [] bits = 32 -> Shr32(s + 2147483647, bits - res)

\* Ring-buffer bytes of one sample as the handler reads them: one
\* rb_read_byte, and a second one where duty_resolution > 8 (lines 309-310,
\* 335-336, 352-353).
sample_bytes(res) == IF res > 8 THEN 2 ELSE 1

\* A writer that stores two bytes for every sample wider than 8 bits.
write_sample_bytes_by_width(bits, res) ==
  IF bits > 8 \/ bits - res < 0 THEN 2 ELSE 1

\* rb_write_byte calls in one pass of the conversion loops: 8 bit, two when
\* shift < 0 (lines 576-577) and one otherwise (line 584); 16 bit, two when
\* duty_resolution > 8 (lines 601-602) and one otherwise (line 612); 32 bit,
\* two when duty_resolution > 8 (lines 629-630) and one otherwise (line 640).
write_sample_bytes(bits, res) ==
  CASE bits = 8 -> IF bits - res < 0 THEN 2 ELSE 1
    [] bits = 16 -> IF res > 8 THEN 2 ELSE 1
    [] bits = 32 -> IF res > 8 THEN 2 ELSE 1

\* Loop count of one wake: len = bytes_can_write, >>= 1 for 8 bit expanded
\* and for 16 bit, >>= 2 for 32 bit.
write_len(bits, res, bytes_can_write) ==
  CASE bits = 8 -> IF bits - res < 0 THEN Shr(bytes_can_write, 1)
                   ELSE bytes_can_write
    [] bits = 16 -> Shr(bytes_can_write, 1)
    [] bits = 32 -> Shr(bytes_can_write, 2)

\* Input bytes one wake accounts for: bytes_can_write, halved on the 8 bit
\* expanding path (line 571).
write_advance(bits, res, bytes_can_write) ==
  IF bits = 8 /\ bits - res < 0 THEN Shr(bytes_can_write, 1)
  ELSE bytes_can_write

\* bytes_can_write: min(inbuf_len, free) & 0xfffffffc (lines 546-552)
aligned_room(inbuf_len, free) ==
  LET n == IF U32Gt(inbuf_len, free) THEN free ELSE inbuf_len
  IN n - (n % 4)

\* value = (wave_h << 8) | wave_l, a uint16_t (lines 312 and 338)
isr_value(wave_h, wave_l) == U16(Shl(wave_h, 8) + wave_l)

\* ledc_set_left_duty_fast / ledc_set_right_duty_fast: the duty register
\* receives duty_val << 4.
ledc_duty_reg(duty_val) == Shl(duty_val, 4)

(***************************************************************************)
(* Inputs of the model                                                     *)
(***************************************************************************)

\* inbuf_len of the pwm_audio_write calls: 0 (rejected), one that is no
\* multiple of 4, and one that is more than the ring buffer holds, so that
\* the call has to wait for the handler.
WriteLens == {0, 6, ringbuf_len}

\* The source sample a pwm_audio_write call passes: inbuf holds one value,
\* repeated (a constant signal).
Samples(bits) == {0}

Resolutions == 8..10
ChannelMasks == {CHANNEL_LEFT_MASK, CHANNEL_RIGHT_MASK,
                 CHANNEL_LEFT_MASK + CHANNEL_RIGHT_MASK}
\* Arguments <<rate, bits, ch>> of the pwm_audio_set_param calls: 16 bit
\* mono at 44100 Hz, and one call failing each range check.  With the
\* parameters pwm_audio_init sets (16000, 8, 2) the data is 8 bit stereo
\* or 16 bit mono.
SetParamArgs == {<<44100, 16, 1>>, <<7000, 16, 1>>, <<44100, 24, 1>>,
                 <<44100, 16, 3>>}
\* rate argument of the pwm_audio_set_sample_rate calls
Rates == {7000, 44100}

(***************************************************************************)
(* Initial state: pwm_audio_init has returned ESP_OK (lines 386-479)       *)
(***************************************************************************)

NoCall == [op |-> "none", res |-> "ESP_OK", n |-> 0, req |-> 0, dropped |-> 0,
           pre |-> <<>>]

TaskIdle == [pc |-> "idle", inbuf |-> 0, inbuf_len |-> 0, req |-> 0,
             bytes_written |-> 0, res |-> "ESP_OK", bytes_can_write |-> 0,
             len |-> 0, i |-> 0, value |-> 0, high |-> FALSE]

IsrIdle == [pc |-> "idle", wave_h |-> 0, wave_l |-> 0, value |-> 0,
            tail |-> 0, ge |-> FALSE]

\* consumed: bytes the handler read since the last flush or parameter
\* change, modulo 4.  gives: semaphore gives since is_give was last cleared
\* (counted up to 2).  wfail: an rb_write_byte of pwm_audio_write failed.
ObsInit == [consumed |-> 0, gives |-> 0, wfail |-> FALSE]

\* handle after pwm_audio_init: the resolution and the channel mask of the
\* configuration, and pwm_audio_set_param(16000, 8, 2).
InitHandle(res, mask) ==
  [duty_resolution |-> res, channel_mask |-> mask, channel_set_num |-> 2,
   framerate |-> 16000, bits_per_sample |-> 8,
   status |-> "PWM_AUDIO_STATUS_IDLE"]

Init ==
  /\ \E res \in Resolutions, mask \in ChannelMasks :
       handle = InitHandle(res, mask)
  /\ rb = rb_create(ringbuf_len)
  /\ timer = [counter_en |-> FALSE, intr_en |-> TRUE]
  /\ ledc = [left |-> 0, right |-> 0]
  /\ isr = IsrIdle
  /\ task = TaskIdle
  /\ api = NoCall
  /\ obs = ObsInit

(***************************************************************************)
(* timer_group_isr (lines 267-377)                                         *)
(***************************************************************************)

\* The channel part of the handler (lines 307-362) works on the ring buffer,
\* the static locals wave_h, wave_l and value, and the two duty registers.
\* c is the record of these, with what the invocation did so far: nread
\* bytes read, rfail a read failed, left_set / right_set a duty register
\* was written.
IsrCtx(r, i, l) ==
  [rb |-> r, wave_h |-> i.wave_h, wave_l |-> i.wave_l, value |-> i.value,
   left |-> l.left, right |-> l.right,
   nread |-> 0, rfail |-> FALSE, left_set |-> FALSE, right_set |-> FALSE]

\* rb_read_byte(handle->ringbuf, &wave_l) and (..., &wave_h)
isr_read_l(c) ==
  LET r == rb_read_byte(c.rb, c.wave_l)
  IN [c EXCEPT !.rb = r.rb, !.wave_l = r.outdata,
               !.nread = @ + (IF r.res = "ESP_OK" THEN 1 ELSE 0),
               !.rfail = @ \/ (r.res # "ESP_OK")]

isr_read_h(c) ==
  LET r == rb_read_byte(c.rb, c.wave_h)
  IN [c EXCEPT !.rb = r.rb, !.wave_h = r.outdata,
               !.nread = @ + (IF r.res = "ESP_OK" THEN 1 ELSE 0),
               !.rfail = @ \/ (r.res # "ESP_OK")]

\* Lines 308-319 (side = "left") and 334-345 (side = "right"): one or two
\* reads, and the duty set when the read of wave_h succeeded.
isr_channel(c, wide, side) ==
  LET c1 == IF wide THEN isr_read_l(c) ELSE c
      c2 == isr_read_h(c1)
      ok == c2.nread > c1.nread
      value == IF wide THEN isr_value(c2.wave_h, c2.wave_l) ELSE c2.value
      duty == ledc_duty_reg(IF wide THEN value ELSE c2.wave_h)
  IN IF ~ok THEN c2
     ELSE IF side = "left"
          THEN [c2 EXCEPT !.value = value, !.left = duty, !.left_set = TRUE]
          ELSE [c2 EXCEPT !.value = value, !.right = duty, !.right_set = TRUE]

\* Lines 307-320
isr_left(c, mask, wide) ==
  IF HasBit(mask, CHANNEL_LEFT_MASK) THEN isr_channel(c, wide, "left") ELSE c

\* Lines 353-360: stereo data and no right GPIO.
isr_discard(c, wide) ==
  LET c1 == IF wide THEN isr_read_h(isr_read_h(c)) ELSE isr_read_h(c)
  IN isr_read_l(c1)

\* Lines 326-362
isr_right(c, mask, ch, wide) ==
  IF HasBit(mask, CHANNEL_RIGHT_MASK)
  THEN IF ch = 1
       THEN [c EXCEPT !.right = ledc_duty_reg(IF wide THEN c.value
                                                      ELSE c.wave_h),
                      !.right_set = TRUE]
       ELSE isr_channel(c, wide, "right")
  ELSE IF ch = 2 THEN isr_discard(c, wide) ELSE c

isr_channels(c, mask, ch, wide) ==
  isr_right(isr_left(c, mask, wide), mask, ch, wide)

\* The timer alarm fires: the handler clears the interrupt, re-arms the
\* alarm (lines 276-299) and serves the channels (lines 301-362).
IsrChannels ==
  /\ isr.pc = "idle"
  /\ timer.counter_en /\ timer.intr_en
  /\ LET c == isr_channels(IsrCtx(rb, isr, ledc), handle.channel_mask,
                           handle.channel_set_num,
                           handle.duty_resolution > 8)
     IN /\ rb' = c.rb
        /\ isr' = [isr EXCEPT !.pc = "guard", !.wave_h = c.wave_h,
                              !.wave_l = c.wave_l, !.value = c.value]
        /\ ledc' = [left |-> c.left, right |-> c.right]
        /\ obs' = [obs EXCEPT !.consumed = (@ + c.nread) % 4]
  /\ UNCHANGED <<handle, timer, task, api>>

IsrReturn == [isr EXCEPT !.pc = "idle", !.tail = 0, !.ge = FALSE]

\* Line 367: 0 == handle->ringbuf->is_give, and of rb_get_free ->
\* rb_get_count lines 172-174: tail = rb->tail and rb->head >= tail.
IsrGuard ==
  /\ isr.pc = "guard"
  /\ isr' = IF rb.is_give = 0
            THEN [isr EXCEPT !.pc = "free", !.tail = rb.tail,
                             !.ge = (rb.head >= rb.tail)]
            ELSE IsrReturn
  /\ UNCHANGED <<rb, handle, timer, ledc, task, api, obs>>

\* Lines 175/178 (the second load of head), 184, and the comparison of line
\* 367 with BUFFER_MIN_SIZE.
IsrFree ==
  /\ isr.pc = "free"
  /\ LET free == rb_free_from(rb.size,
                              rb_count_from(rb.size, isr.tail, isr.ge, rb.head))
     IN isr' = IF U32Gt(free, BUFFER_MIN_SIZE)
               THEN [isr EXCEPT !.pc = "set_give", !.tail = 0, !.ge = FALSE]
               ELSE IsrReturn
  /\ UNCHANGED <<rb, handle, timer, ledc, task, api, obs>>

\* Line 369: is_give = 1
IsrSetGive ==
  /\ isr.pc = "set_give"
  /\ rb' = [rb EXCEPT !.is_give = 1]
  /\ isr' = [isr EXCEPT !.pc = "give"]
  /\ UNCHANGED <<handle, timer, ledc, task, api, obs>>

\* Line 371: xSemaphoreGiveFromISR on the binary semaphore (a give while a
\* token is pending leaves the one token).
IsrGive ==
  /\ isr.pc = "give"
  /\ rb' = [rb EXCEPT !.semaphore_rb = 1]
  /\ isr' = IsrReturn
  /\ obs' = [obs EXCEPT !.gives = IF @ < 2 THEN @ + 1 ELSE @]
  /\ UNCHANGED <<handle, timer, ledc, task, api>>

Isr == IsrChannels \/ IsrGuard \/ IsrFree \/ IsrSetGive \/ IsrGive

\* Lines 367-376 in one piece: the guard, the free space and the give.
isr_signal(r) ==
  IF r.is_give = 0 /\ U32Gt(rb_get_free(r), BUFFER_MIN_SIZE)
  THEN [r EXCEPT !.is_give = 1, !.semaphore_rb = 1]
  ELSE r

\* One whole invocation as a single step: the handler on the caller's own
\* core (the single-core ESP32-S2, or the timer interrupt allocated on the
\* core the caller runs on) preempts the caller and runs to its end.
IsrRun ==
  /\ isr.pc = "idle"
  /\ timer.counter_en /\ timer.intr_en
  /\ LET c == isr_channels(IsrCtx(rb, isr, ledc), handle.channel_mask,
                           handle.channel_set_num,
                           handle.duty_resolution > 8)
         r == isr_signal(c.rb)
     IN /\ rb' = r
        /\ isr' = [isr EXCEPT !.wave_h = c.wave_h, !.wave_l = c.wave_l,
                              !.value = c.value]
        /\ ledc' = [left |-> c.left, right |-> c.right]
        /\ obs' = [obs EXCEPT
                     !.consumed = (@ + c.nread) % 4,
                     !.gives = IF r.semaphore_rb = 1 /\ r.is_give # c.rb.is_give
                               THEN (IF @ < 2 THEN @ + 1 ELSE @) ELSE @]
  /\ UNCHANGED <<handle, timer, task, api>>

(***************************************************************************)
(* pwm_audio_write (lines 534-660)                                         *)
(***************************************************************************)

Returned(op, res, n, req, dropped) ==
  [op |-> op, res |-> res, n |-> n, req |-> req, dropped |-> dropped,
   pre |-> <<>>]

\* The call and its argument check (line 538); *bytes_written = 0.
WriteCall ==
  /\ task.pc = "idle"
  /\ \E inbuf_len \in WriteLens, s \in Samples(handle.bits_per_sample) :
       IF inbuf_len = 0
       THEN /\ api' = Returned("pwm_audio_write", "ESP_ERR_INVALID_ARG", 0, 0, 0)
            /\ task' = task
       ELSE /\ task' = [TaskIdle EXCEPT !.pc = "loop", !.inbuf = s,
                                        !.inbuf_len = inbuf_len,
                                        !.req = inbuf_len]
            /\ api' = NoCall
  /\ UNCHANGED <<rb, handle, timer, ledc, isr, obs>>

\* while (inbuf_len) is false: return res (line 659).
WriteReturn ==
  /\ task.pc = "loop" /\ task.inbuf_len = 0
  /\ api' = Returned("pwm_audio_write", task.res, task.bytes_written,
                     task.req, 0)
  /\ task' = TaskIdle
  /\ UNCHANGED <<rb, handle, timer, ledc, isr, obs>>

\* A wait that leaves is_give as the handler set it.
WriteKeepGive ==
  /\ task.pc = "loop" /\ task.inbuf_len # 0
  /\ rb' = rb
  /\ task' = [task EXCEPT !.pc = "take"]
  /\ obs' = [obs EXCEPT !.gives = 0]
  /\ UNCHANGED <<handle, timer, ledc, isr, api>>

\* rb_wait_semaphore, line 236: rb->is_give = 0
WriteClearGive ==
  /\ task.pc = "loop" /\ task.inbuf_len # 0
  /\ rb' = [rb EXCEPT !.is_give = 0]
  /\ task' = [task EXCEPT !.pc = "take"]
  /\ obs' = [obs EXCEPT !.gives = 0]
  /\ UNCHANGED <<handle, timer, ledc, isr, api>>

\* rb_wait_semaphore, line 238: xSemaphoreTake returns pdTRUE
WriteTake ==
  /\ task.pc = "take" /\ rb.semaphore_rb = 1
  /\ rb' = [rb EXCEPT !.semaphore_rb = 0]
  /\ task' = [task EXCEPT !.pc = "free"]
  /\ UNCHANGED <<handle, timer, ledc, isr, api, obs>>

\* xSemaphoreTake gives up after ticks_to_wait (a finite number of ticks;
\* with portMAX_DELAY this step is never taken): rb_wait_semaphore returns
\* ESP_FAIL, line 655 sets res and the while loop goes on.
WriteTimeout ==
  /\ task.pc = "take" /\ rb.semaphore_rb = 0
  /\ task' = [task EXCEPT !.pc = "loop", !.res = "ESP_FAIL"]
  /\ UNCHANGED <<rb, handle, timer, ledc, isr, api, obs>>

\* Lines 545-561: free space, bytes_can_write, the early return of the
\* misaligned rest, or the set-up of the conversion loop.
WriteFree ==
  /\ task.pc = "free"
  /\ LET bytes_can_write == aligned_room(task.inbuf_len, rb_get_free(rb))
         bits == handle.bits_per_sample
         res == handle.duty_resolution
     IN IF bytes_can_write = 0
        THEN /\ api' = Returned("pwm_audio_write", "ESP_OK",
                                task.bytes_written + task.inbuf_len, task.req,
                                task.inbuf_len)
             /\ task' = TaskIdle
        ELSE /\ task' = [task EXCEPT
                           !.pc = "conv",
                           !.bytes_can_write =
                              write_advance(bits, res, bytes_can_write),
                           !.len = write_len(bits, res, bytes_can_write),
                           !.i = 0]
             /\ api' = api
  /\ UNCHANGED <<rb, handle, timer, ledc, isr, obs>>

\* The end of one pass of a for loop, and after the last pass lines 650-652.
WriteNext(t) ==
  IF t.i + 1 < t.len
  THEN [t EXCEPT !.i = @ + 1, !.value = 0, !.high = FALSE]
  ELSE [t EXCEPT !.pc = "loop", !.inbuf_len = @ - t.bytes_can_write,
                 !.bytes_written = @ + t.bytes_can_write,
                 !.bytes_can_write = 0, !.len = 0, !.i = 0, !.value = 0,
                 !.high = FALSE]

\* The conversion of sample i and rb_write_byte(rb, value) (lines 576, 584,
\* 601, 612, 629, 640); the return value is ignored.
WriteByteLow ==
  /\ task.pc = "conv" /\ ~task.high
  /\ LET value == pwm_value(handle.bits_per_sample, handle.duty_resolution,
                            task.inbuf)
         r == rb_write_byte(rb, U8(value))
     IN /\ rb' = r.rb
        /\ task' = IF write_sample_bytes(handle.bits_per_sample,
                                         handle.duty_resolution) = 2
                   THEN [task EXCEPT !.value = value, !.high = TRUE]
                   ELSE WriteNext(task)
        /\ obs' = [obs EXCEPT !.wfail = @ \/ (r.res # "ESP_OK")]
  /\ UNCHANGED <<handle, timer, ledc, isr, api>>

\* rb_write_byte(rb, value >> 8) (lines 577, 602, 630)
WriteByteHigh ==
  /\ task.pc = "conv" /\ task.high
  /\ LET r == rb_write_byte(rb, U8(Shr(task.value, 8)))
     IN /\ rb' = r.rb
        /\ task' = WriteNext(task)
        /\ obs' = [obs EXCEPT !.wfail = @ \/ (r.res # "ESP_OK")]
  /\ UNCHANGED <<handle, timer, ledc, isr, api>>

Write ==
  \/ WriteCall \/ WriteReturn \/ WriteClearGive \/ WriteTake \/ WriteTimeout
  \/ WriteFree \/ WriteByteLow \/ WriteByteHigh

(***************************************************************************)
(* Control functions (lines 482-532 and 662-685)                           *)
(***************************************************************************)

\* A pwm_audio_set_param without the status check of line 486.
SetParamAnyState ==
  /\ task.pc = "idle"
  /\ \E args \in SetParamArgs :
       LET rate == args[1]
           bits == args[2]
           ch == args[3]
       IN
       IF /\ rate <= SAMPLE_RATE_MAX /\ rate >= SAMPLE_RATE_MIN
          /\ bits \in {32, 16, 8}
          /\ ch <= 2 /\ ch >= 1
       THEN /\ handle' = [handle EXCEPT !.framerate = rate,
                                        !.bits_per_sample = bits,
                                        !.channel_set_num = ch]
            /\ timer' = [counter_en |-> FALSE, intr_en |-> TRUE]
            /\ api' = Returned("pwm_audio_set_param", "ESP_OK", 0, 0, 0)
            /\ obs' = [obs EXCEPT !.consumed = 0]
       ELSE /\ api' = Returned("pwm_audio_set_param", "ESP_ERR_INVALID_ARG",
                               0, 0, 0)
            /\ UNCHANGED <<handle, timer, obs>>
  /\ UNCHANGED <<rb, ledc, isr, task>>

\* pwm_audio_set_param: the checks of lines 486-489, the three fields, and
\* timer_init with counter_en = TIMER_PAUSE followed by timer_enable_intr.
SetParam ==
  /\ task.pc = "idle"
  /\ \E args \in SetParamArgs :
       LET rate == args[1]
           bits == args[2]
           ch == args[3]
       IN
       IF /\ handle.status # "PWM_AUDIO_STATUS_BUSY"
          /\ rate <= SAMPLE_RATE_MAX /\ rate >= SAMPLE_RATE_MIN
          /\ bits \in {32, 16, 8}
          /\ ch <= 2 /\ ch >= 1
       THEN /\ handle' = [handle EXCEPT !.framerate = rate,
                                        !.bits_per_sample = bits,
                                        !.channel_set_num = ch]
            /\ timer' = [counter_en |-> FALSE, intr_en |-> TRUE]
            /\ api' = Returned("pwm_audio_set_param", "ESP_OK", 0, 0, 0)
            /\ obs' = [obs EXCEPT !.consumed = 0]
       ELSE /\ api' = Returned("pwm_audio_set_param", "ESP_ERR_INVALID_ARG",
                               0, 0, 0)
            /\ UNCHANGED <<handle, timer, obs>>
  /\ UNCHANGED <<rb, ledc, isr, task>>

\* pwm_audio_set_sample_rate (timer_set_alarm_value returns ESP_OK)
SetSampleRate ==
  /\ task.pc = "idle"
  /\ \E rate \in Rates :
       IF /\ handle.status # "PWM_AUDIO_STATUS_BUSY"
          /\ rate <= SAMPLE_RATE_MAX /\ rate >= SAMPLE_RATE_MIN
       THEN /\ handle' = [handle EXCEPT !.framerate = rate]
            /\ api' = Returned("pwm_audio_set_sample_rate", "ESP_OK", 0, 0, 0)
       ELSE /\ handle' = handle
            /\ api' = Returned("pwm_audio_set_sample_rate",
                               "ESP_ERR_INVALID_ARG", 0, 0, 0)
  /\ UNCHANGED <<rb, timer, ledc, isr, task, obs>>

\* A pwm_audio_start without the status check of line 666.
StartAnyState ==
  /\ task.pc = "idle"
  /\ handle' = [handle EXCEPT !.status = "PWM_AUDIO_STATUS_BUSY"]
  /\ timer' = [counter_en |-> TRUE, intr_en |-> TRUE]
  /\ api' = Returned("pwm_audio_start", "ESP_OK", 0, 0, 0)
  /\ UNCHANGED <<rb, ledc, isr, task, obs>>

\* pwm_audio_start
Start ==
  /\ task.pc = "idle"
  /\ IF handle.status = "PWM_AUDIO_STATUS_IDLE"
     THEN /\ handle' = [handle EXCEPT !.status = "PWM_AUDIO_STATUS_BUSY"]
          /\ timer' = [counter_en |-> TRUE, intr_en |-> TRUE]
          /\ api' = Returned("pwm_audio_start", "ESP_OK", 0, 0, 0)
     ELSE /\ api' = Returned("pwm_audio_start", "ESP_ERR_INVALID_STATE", 0, 0, 0)
          /\ UNCHANGED <<handle, timer>>
  /\ UNCHANGED <<rb, ledc, isr, task, obs>>

\* pwm_audio_stop, lines 680-681: timer_pause and timer_disable_intr
StopTimer ==
  /\ task.pc = "idle"
  /\ timer' = [counter_en |-> FALSE, intr_en |-> FALSE]
  /\ task' = [task EXCEPT !.pc = "stop"]
  /\ api' = NoCall
  /\ UNCHANGED <<rb, handle, ledc, isr, obs>>

\* pwm_audio_stop, lines 682-684: rb_flush, status = IDLE, return ESP_OK
StopFlush ==
  /\ task.pc = "stop"
  /\ rb' = rb_flush(rb)
  /\ handle' = [handle EXCEPT !.status = "PWM_AUDIO_STATUS_IDLE"]
  /\ api' = Returned("pwm_audio_stop", "ESP_OK", 0, 0, 0)
  /\ task' = [task EXCEPT !.pc = "idle"]
  /\ obs' = [obs EXCEPT !.consumed = 0]
  /\ UNCHANGED <<timer, ledc, isr>>

\* The values of pwm_audio_status_t (pwm_audio.h)
Statuses ==
  {"PWM_AUDIO_STATUS_UN_INIT", "PWM_AUDIO_STATUS_IDLE", "PWM_AUDIO_STATUS_BUSY"}

\* handle->status once pwm_audio_deinit has run lines 692-693: line 692
\* stores UN_INIT and pwm_audio_stop, called at line 693, stores IDLE at
\* line 683.
deinit_status == "PWM_AUDIO_STATUS_IDLE"

\* pwm_audio_deinit as a whole: status = UN_INIT (line 692), pwm_audio_stop
\* (line 693: timer_pause, timer_disable_intr, rb_flush, status = IDLE),
\* ledc_stop and gpio_set_direction, free(handle) at line 709 and return
\* ESP_OK.  g_pwm_audio_handle keeps pointing at the freed block, so
\* handle.status after the call is what the block holds: deinit_status
\* while the allocator has left the word alone, any other value once it has
\* been poisoned or reused.  rb_destroy at line 710 reads handle->ringbuf
\* from the freed block as well; the model lets it find the pointer.  No
\* call follows a deinit.
Deinit ==
  /\ task.pc = "idle"
  /\ timer' = [counter_en |-> FALSE, intr_en |-> FALSE]
  /\ rb' = rb_flush(rb)
  /\ \E st \in {deinit_status} \cup Statuses :
       handle' = [handle EXCEPT !.status = st]
  /\ api' = Returned("pwm_audio_deinit", "ESP_OK", 0, 0, 0)
  /\ task' = [task EXCEPT !.pc = "deinit"]
  /\ obs' = [obs EXCEPT !.consumed = 0]
  /\ UNCHANGED <<ledc, isr>>

Control ==
  SetParam \/ SetSampleRate \/ Start \/ StopTimer \/ StopFlush \/ Deinit

\* The handler on the caller's core
Next == IsrRun \/ Write \/ Control

Spec == Init /\ [][Next]_vars

\* The handler on the other core of the ESP32, with the parameters
\* pwm_audio_init has set
NextSMP == Isr \/ Write \/ Start \/ StopTimer \/ StopFlush

SpecSMP == Init /\ [][NextSMP]_vars

\* rb_read_byte on the other core, in two steps.  IsrChannelsLoad is the
\* channel part of an invocation up to the last statement of its last
\* rb_read_byte: the read has loaded tail and head and the byte (lines
\* 195-206) and holds the new tail in its local; the store rb->tail = tail
\* of line 211 is IsrStoreTail.  The reads before the last one are complete.
\* Where the last read of the invocation fails (or nothing is read) no store
\* is left to do and the step is IsrChannels.
IsrChannelsLoad ==
  /\ isr.pc = "idle"
  /\ timer.counter_en /\ timer.intr_en
  /\ LET c == isr_channels(IsrCtx(rb, isr, ledc), handle.channel_mask,
                           handle.channel_set_num,
                           handle.duty_resolution > 8)
         last == c.nread > 0 /\ ~c.rfail
         before == IF c.rb.tail = 0 THEN c.rb.size - 1 ELSE c.rb.tail - 1
     IN /\ rb' = IF last THEN [c.rb EXCEPT !.tail = before] ELSE c.rb
        /\ isr' = [isr EXCEPT !.pc = IF last THEN "store" ELSE "guard",
                              !.tail = IF last THEN c.rb.tail ELSE 0,
                              !.wave_h = c.wave_h, !.wave_l = c.wave_l,
                              !.value = c.value]
        /\ ledc' = [left |-> c.left, right |-> c.right]
        /\ obs' = [obs EXCEPT !.consumed = (@ + c.nread) % 4]
  /\ UNCHANGED <<handle, timer, task, api>>

\* rb_read_byte, line 211: rb->tail = tail
IsrStoreTail ==
  /\ isr.pc = "store"
  /\ rb' = [rb EXCEPT !.tail = isr.tail]
  /\ isr' = [isr EXCEPT !.pc = "guard", !.tail = 0]
  /\ UNCHANGED <<handle, timer, ledc, task, api, obs>>

\* A session with both channels enabled at 8 bit duty resolution in which
\* pwm_audio_start has returned: it is written to and stopped while the
\* handler runs on the other core, and not started again.
InitRace ==
  /\ handle = [InitHandle(8, CHANNEL_LEFT_MASK + CHANNEL_RIGHT_MASK) EXCEPT
                 !.status = "PWM_AUDIO_STATUS_BUSY"]
  /\ rb = rb_create(ringbuf_len)
  /\ timer = [counter_en |-> TRUE, intr_en |-> TRUE]
  /\ ledc = [left |-> 0, right |-> 0]
  /\ isr = IsrIdle
  /\ task = TaskIdle
  /\ api = Returned("pwm_audio_start", "ESP_OK", 0, 0, 0)
  /\ obs = ObsInit

\* At 8 bit duty resolution a sample is one byte: WriteByteHigh has no step.
NextRace ==
  \/ IsrChannelsLoad \/ IsrStoreTail
  \/ IsrGuard \/ IsrFree \/ IsrSetGive \/ IsrGive
  \/ WriteCall \/ WriteReturn \/ WriteClearGive \/ WriteTake
  \/ WriteTimeout \/ WriteFree \/ WriteByteLow
  \/ StopTimer \/ StopFlush

SpecRace == InitRace /\ [][NextRace]_vars

\* A session that is started and not stopped, with the left channel enabled
\* and 8 bit duty resolution.  The timer alarm keeps firing while the timer
\* counts, an invocation of the handler runs to its end, and the caller's
\* task is scheduled; whether pwm_audio_write is called and whether a wait
\* times out is left open.
InitLive ==
  /\ Init
  /\ handle.duty_resolution = 8
  /\ HasBit(handle.channel_mask, CHANNEL_LEFT_MASK)

\* At 8 bit duty resolution a sample is one byte: WriteByteHigh has no step.
NextLive ==
  \/ Isr
  \/ WriteCall \/ WriteReturn \/ WriteClearGive \/ WriteTake \/ WriteTimeout
  \/ WriteFree \/ WriteByteLow
  \/ SetParam \/ Start

TimerFires == []<>(isr.pc # "idle" \/ ~(timer.counter_en /\ timer.intr_en))

IsrSteps == IsrGuard \/ IsrFree \/ IsrSetGive \/ IsrGive

WriteSteps ==
  \/ WriteReturn \/ WriteClearGive \/ WriteTake \/ WriteFree \/ WriteByteLow
  \/ WriteByteHigh

SpecLive ==
  /\ InitLive /\ [][NextLive]_vars
  /\ TimerFires /\ WF_vars(IsrSteps) /\ WF_vars(WriteSteps)

(***************************************************************************)
(* The ring buffer on its own: any sequence of rb_write_byte, rb_read_byte *)
(* and rb_flush calls by one caller.  api records the last call; for       *)
(* rb_write_byte, pre is the ring buffer the call found.                   *)
(***************************************************************************)

\* The byte the calls write
RbByte == 165

RbCalled(op, res, n, pre) ==
  [op |-> op, res |-> res, n |-> n, req |-> 0, dropped |-> 0, pre |-> pre]

RbWriteByte ==
  /\ LET r == rb_write_byte(rb, RbByte)
     IN /\ rb' = r.rb
        /\ api' = RbCalled("rb_write_byte", r.res, 0, rb)
  /\ UNCHANGED <<handle, timer, ledc, isr, task, obs>>

RbReadByte ==
  /\ LET r == rb_read_byte(rb, 0)
     IN /\ rb' = r.rb
        /\ api' = RbCalled("rb_read_byte", r.res, r.outdata, <<>>)
  /\ UNCHANGED <<handle, timer, ledc, isr, task, obs>>

RbFlush ==
  /\ rb' = rb_flush(rb)
  /\ api' = RbCalled("rb_flush", "ESP_OK", 0, <<>>)
  /\ UNCHANGED <<handle, timer, ledc, isr, task, obs>>

InitRB ==
  /\ handle = InitHandle(8, CHANNEL_LEFT_MASK + CHANNEL_RIGHT_MASK)
  /\ rb = rb_create(ringbuf_len)
  /\ timer = [counter_en |-> FALSE, intr_en |-> TRUE]
  /\ ledc = [left |-> 0, right |-> 0]
  /\ isr = IsrIdle
  /\ task = TaskIdle
  /\ api = NoCall
  /\ obs = ObsInit

NextRB == RbWriteByte \/ RbReadByte \/ RbFlush

SpecRB == InitRB /\ [][NextRB]_vars

\* C1: for any sequence of rb_write_byte, rb_read_byte and rb_flush calls,
\* free + count = size - 1, head and tail stay in 0 .. size-1, and
\* rb_write_byte fails exactly when it finds count = size - 1, and then
\* leaves head, tail and the stored bytes as they were.
C1_RingCapacity ==
  /\ rb_get_free(rb) + rb_get_count(rb) = rb.size - 1
  /\ rb.head \in 0..(rb.size - 1)
  /\ rb.tail \in 0..(rb.size - 1)
  /\ api.op = "rb_write_byte" =>
       /\ (api.res = "ESP_FAIL") <=> (rb_get_count(api.pre) = api.pre.size - 1)
       /\ api.res = "ESP_FAIL" => rb = api.pre

\* C1: a write found the buffer full after head and tail have wrapped, and
\* failed.
C1_Witness ==
  /\ api.op = "rb_write_byte" /\ api.res = "ESP_FAIL"
  /\ rb_get_count(rb) = rb.size - 1
  /\ rb.tail > 0 /\ rb.head < rb.tail

(***************************************************************************)
(* One 16 bit sample through the ring buffer at duty resolution 10: the    *)
(* conversion loop of lines 596-603 stores it, the handler (lines 308-314) *)
(* reads it back after the loop.                                           *)
(***************************************************************************)

\* int16_t
Int16 == (-32768)..32767

\* pwm_audio_set_param(44100, 16, 1) and pwm_audio_start have returned, the
\* handler has found the buffer empty and given the semaphore, and
\* pwm_audio_write(inbuf, 6, ...) has taken it and computed
\* bytes_can_write = 4: two samples of the value inbuf holds.
InitConv ==
  /\ handle = [InitHandle(10, CHANNEL_LEFT_MASK) EXCEPT
                 !.framerate = 44100, !.bits_per_sample = 16,
                 !.channel_set_num = 1, !.status = "PWM_AUDIO_STATUS_BUSY"]
  /\ rb = rb_create(ringbuf_len)
  /\ timer = [counter_en |-> TRUE, intr_en |-> TRUE]
  /\ ledc = [left |-> 0, right |-> 0]
  /\ isr = IsrIdle
  /\ \E s \in Int16 :
       task = [TaskIdle EXCEPT !.pc = "conv", !.inbuf = s, !.inbuf_len = 6,
                               !.req = 6, !.bytes_can_write = 4, !.len = 2]
  /\ api = NoCall
  /\ obs = ObsInit

\* The handler fires once the conversion loop has stored whole samples.
ConvIsr == task.pc # "conv" /\ rb.head # rb.tail /\ IsrRun

NextConv == WriteByteLow \/ WriteByteHigh \/ ConvIsr

SpecConv == InitConv /\ [][NextConv]_vars

\* C10: for 16 bit samples at duty resolution 10, the duty value the handler
\* reconstructs from the two bytes stored for the sample s equals
\* (s + 32767) >> 6 and lies in 0 .. 1023, for every s of int16_t.
C10_RoundTrip ==
  (task.pc # "conv" /\ rb.tail # 0) =>
     /\ isr.value = (task.inbuf + 32767) \div 64
     /\ isr.value \in 0..1023

(***************************************************************************)
(* One wake of pwm_audio_write at every sample width and duty resolution,  *)
(* followed by the handler.                                                *)
(***************************************************************************)

\* Source samples of the three widths; the 32 bit ones stay at temp <= 0.
WidthSamples(bits) ==
  CASE bits = 8 -> {-128, -1, 0, 127}
    [] bits = 16 -> {-32768, -1, 0, 32767}
    [] bits = 32 -> {-2147483647 - 1, -65536, -1, 0}

\* inbuf_len of the pwm_audio_write call the model follows
WakeLen == 8

\* bytes_can_write of its first wake, the ring buffer being empty
WakeBytes == aligned_room(WakeLen, rb_get_free(rb_create(ringbuf_len)))

\* pwm_audio_set_param(44100, bits, 1) and pwm_audio_start have returned,
\* the handler has found the buffer empty and given the semaphore, and
\* pwm_audio_write(inbuf, WakeLen, ...) has taken it and computed
\* bytes_can_write.
InitWidth ==
  /\ \E bits \in {8, 16, 32}, res \in Resolutions :
       /\ handle = [InitHandle(res, CHANNEL_LEFT_MASK) EXCEPT
                      !.framerate = 44100, !.bits_per_sample = bits,
                      !.channel_set_num = 1,
                      !.status = "PWM_AUDIO_STATUS_BUSY"]
       /\ \E s \in WidthSamples(bits) :
            task = [TaskIdle EXCEPT
                      !.pc = "conv", !.inbuf = s, !.inbuf_len = WakeLen,
                      !.req = WakeLen,
                      !.bytes_can_write = write_advance(bits, res, WakeBytes),
                      !.len = write_len(bits, res, WakeBytes)]
  /\ rb = rb_create(ringbuf_len)
  /\ timer = [counter_en |-> TRUE, intr_en |-> TRUE]
  /\ ledc = [left |-> 0, right |-> 0]
  /\ isr = IsrIdle
  /\ api = NoCall
  /\ obs = ObsInit

SpecWidth == InitWidth /\ [][NextConv]_vars

(***************************************************************************)
(* Properties of the write path and the handler                            *)
(***************************************************************************)

Busy == handle.status = "PWM_AUDIO_STATUS_BUSY"

TimerRuns == timer.counter_en /\ timer.intr_en

\* Ring-buffer bytes of one frame: channel count x bytes per sample
frame_bytes == handle.channel_set_num * sample_bytes(handle.duty_resolution)

\* What the channel part of the next handler invocation does with the
\* channel mask given
NextPeriod(mask) ==
  isr_channels(IsrCtx(rb, isr, ledc), mask, handle.channel_set_num,
               handle.duty_resolution > 8)

\* C2: for a mono source, or a stereo source with both channels enabled,
\* the number of bytes the handler has consumed since the last flush is a
\* multiple of the frame size at the end of every handler invocation.
C2_FrameAligned ==
  (\/ handle.channel_set_num = 1
   \/ handle.channel_mask = CHANNEL_LEFT_MASK + CHANNEL_RIGHT_MASK)
  => obs.consumed % frame_bytes = 0

\* C3: when pwm_audio_write(inbuf, N) returns ESP_OK with *bytes_written = N,
\* the input bytes counted without being converted are the trailing N mod 4.
C3_OnlyTrailingDropped ==
  (api.op = "pwm_audio_write" /\ api.res = "ESP_OK" /\ api.n = api.req)
  => api.dropped = api.req % 4

\* C4: once a wait has timed out, pwm_audio_write does not wait or convert
\* again, and a call that returns ESP_FAIL reports fewer bytes than asked.
C4_TimeoutReturns ==
  /\ task.res = "ESP_FAIL" => task.pc \notin {"take", "free", "conv"}
  /\ (api.op = "pwm_audio_write" /\ api.res = "ESP_FAIL") => api.n < api.req

\* C5: with the session busy and the left channel enabled, a producer
\* waiting for the semaphore is eventually woken and its pwm_audio_write
\* eventually returns.
C5_NoLostWake ==
  (Busy /\ HasBit(handle.channel_mask, CHANNEL_LEFT_MASK) /\ task.pc = "take")
  ~> (task.pc = "idle")

\* C5: the producer has cleared is_give and waits without a token on a
\* buffer with no more than BUFFER_MIN_SIZE free, while an invocation of the
\* handler that has passed its check is about to set is_give and give.
C5_Witness ==
  /\ Busy /\ HasBit(handle.channel_mask, CHANNEL_LEFT_MASK)
  /\ task.pc = "take" /\ rb.semaphore_rb = 0 /\ rb.is_give = 0
  /\ ~U32Gt(rb_get_free(rb), BUFFER_MIN_SIZE)
  /\ isr.pc = "set_give"

\* C6: between two consecutive clearings of is_give by the producer the
\* handler gives the semaphore at most once.
C6_OneGivePerClear == obs.gives <= 1

\* C7: when the handler gives the semaphore, no token given before is still
\* pending.
C7_NoGiveWhilePending == isr.pc = "give" => rb.semaphore_rb = 0

\* C8: with stereo data and only the left channel enabled, one period
\* removes as many bytes from a ring buffer holding at least 6 as it would
\* with both channels enabled.
C8_SameDrain ==
  (/\ handle.channel_set_num = 2
   /\ handle.channel_mask = CHANNEL_LEFT_MASK
   /\ isr.pc = "idle" /\ TimerRuns
   /\ rb_get_count(rb) >= 6)
  => NextPeriod(CHANNEL_LEFT_MASK).rb.tail
       = NextPeriod(CHANNEL_LEFT_MASK + CHANNEL_RIGHT_MASK).rb.tail

\* C9: with mono data and both channels enabled, a period sets the right
\* duty only when it sets the left duty, to the same value, and reads no
\* byte beyond the left sample.
C9_RightFollowsLeft ==
  (/\ handle.channel_set_num = 1
   /\ handle.channel_mask = CHANNEL_LEFT_MASK + CHANNEL_RIGHT_MASK
   /\ isr.pc = "idle" /\ TimerRuns)
  => LET c == NextPeriod(handle.channel_mask)
     IN /\ c.right_set => (c.left_set /\ c.right = c.left)
        /\ c.nread <= sample_bytes(handle.duty_resolution)

(***************************************************************************)
(* Properties of the control functions                                     *)
(***************************************************************************)

\* C11: pwm_audio_set_param and pwm_audio_set_sample_rate called while the
\* status is busy fail and leave framerate, bits_per_sample,
\* channel_set_num and the status (and the timer) as they were.
C11_BusyRejectsParams ==
  [][(Busy /\ (SetParam \/ SetSampleRate))
       => (api'.res # "ESP_OK" /\ handle' = handle /\ timer' = timer)]_vars

\* C11: a pwm_audio_set_param with arguments in range has been rejected in a
\* busy session, and the parameters are those of pwm_audio_init.
C11_Witness ==
  /\ Busy
  /\ api.op = "pwm_audio_set_param" /\ api.res # "ESP_OK"
  /\ handle.framerate = 16000 /\ handle.bits_per_sample = 8
  /\ handle.channel_set_num = 2

\* C12: a parameter change attempted while busy reports
\* ESP_ERR_INVALID_STATE, the error pwm_audio_start reports while busy, and
\* not the ESP_ERR_INVALID_ARG of an argument out of range.
C12_BusyIsInvalidState ==
  (/\ Busy
   /\ api.op \in {"pwm_audio_set_param", "pwm_audio_set_sample_rate"}
   /\ api.res # "ESP_OK")
  => api.res = "ESP_ERR_INVALID_STATE"

\* C13: pwm_audio_start succeeds only from idle and makes the status busy;
\* called while busy it returns ESP_ERR_INVALID_STATE and leaves the status,
\* the timer and the ring buffer as they were.
C13_StartOnlyFromIdle ==
  [][Start =>
       IF handle.status = "PWM_AUDIO_STATUS_IDLE"
       THEN /\ api'.res = "ESP_OK"
            /\ handle'.status = "PWM_AUDIO_STATUS_BUSY"
            /\ timer'.counter_en /\ timer'.intr_en
       ELSE /\ api'.res = "ESP_ERR_INVALID_STATE"
            /\ handle' = handle /\ rb' = rb /\ timer' = timer]_vars

\* C13: a second pwm_audio_start has returned ESP_ERR_INVALID_STATE in a
\* session that is busy and has data queued.
C13_Witness ==
  /\ Busy
  /\ api.op = "pwm_audio_start" /\ api.res = "ESP_ERR_INVALID_STATE"
  /\ rb.head # rb.tail

\* C15: after pwm_audio_deinit has returned the status is
\* PWM_AUDIO_STATUS_UN_INIT and the timer interrupt is disabled.
C15_DeinitUninitialized ==
  api.op = "pwm_audio_deinit"
  => (/\ handle.status = "PWM_AUDIO_STATUS_UN_INIT"
      /\ ~timer.counter_en /\ ~timer.intr_en)

(***************************************************************************)
(* Properties of pwm_audio_write                                           *)
(***************************************************************************)

\* C16: pwm_audio_write waits for the semaphore only when the ring buffer is
\* full: while the call is blocked in xSemaphoreTake with no token to take,
\* fewer than 4 bytes are free.
C16_WaitsOnlyWhenFull ==
  (task.pc = "take" /\ rb.semaphore_rb = 0) => rb_get_free(rb) < 4

\* C17: with stereo data and one of the two channels enabled in
\* channel_mask, a wake of pwm_audio_write stores the samples of the enabled
\* channel only: its loop count is half the number of source samples in the
\* input bytes the wake accounts for.
C17_StoresDrivenChannelOnly ==
  (/\ task.pc = "conv"
   /\ handle.channel_set_num = 2
   /\ handle.channel_mask # CHANNEL_LEFT_MASK + CHANNEL_RIGHT_MASK)
  => task.len * 2 = task.bytes_can_write \div (handle.bits_per_sample \div 8)

\* C18: for bits_per_sample 8, 16 and 32 and duty_resolution 8, 9 and 10,
\* the bytes pwm_audio_write stores per source sample and the bytes the
\* handler reads per channel slot are the same number: 2 when
\* duty_resolution > 8, 1 otherwise.
C18_SameSampleWidth ==
  LET bits == handle.bits_per_sample
      res == handle.duty_resolution
      w == IF res > 8 THEN 2 ELSE 1
  IN /\ (task.pc = "loop" /\ rb.tail = 0)
          => rb.head = write_len(bits, res, WakeBytes) * w
     /\ (task.pc = "loop" /\ rb_get_count(rb) >= 2)
          => NextPeriod(handle.channel_mask).nread = w

\* C18: two 32 bit samples have been stored as two bytes each at duty
\* resolution 10 and the handler has read the two bytes of the first.
C18_Witness ==
  /\ handle.bits_per_sample = 32 /\ handle.duty_resolution = 10
  /\ task.pc = "loop" /\ rb.head = 4 /\ rb.tail = 2

\* C20: a handler invocation that starts with the ring buffer empty leaves
\* head and tail as they were and leaves the duty of every channel that does
\* its own read (the left one, and the right one for stereo data) as it was;
\* it still evaluates the guard of line 367 and gives the semaphore when
\* is_give is 0.
C20_EmptyKeepsDuty ==
  [][(IsrRun /\ rb.head = rb.tail) =>
       /\ rb'.head = rb.head /\ rb'.tail = rb.tail /\ rb'.buf = rb.buf
       /\ ledc'.left = ledc.left
       /\ (handle.channel_set_num = 2 => ledc'.right = ledc.right)
       /\ IF rb.is_give = 0
          THEN rb'.is_give = 1 /\ rb'.semaphore_rb = 1
          ELSE rb'.is_give = 1 /\ rb'.semaphore_rb = rb.semaphore_rb]_vars

\* C20: with both channels enabled a session has been started on an empty
\* ring buffer and the handler has run: it has given the semaphore, nothing
\* was read and both duty registers hold what they held.
C20_Witness ==
  /\ Busy /\ api.op = "pwm_audio_start"
  /\ handle.channel_mask = CHANNEL_LEFT_MASK + CHANNEL_RIGHT_MASK
  /\ rb.head = rb.tail
  /\ rb.is_give = 1 /\ rb.semaphore_rb = 1
  /\ ledc.left = 0 /\ ledc.right = 0

(***************************************************************************)
(* Properties of pwm_audio_stop                                            *)
(***************************************************************************)

\* C14: after pwm_audio_stop has returned, head and tail are 0 (the ring
\* buffer is empty), the timer is paused with its interrupt disabled and the
\* status is idle, whatever the buffer held and whether the status was idle
\* or busy.
C14_StopLeavesEmptyIdle ==
  api.op = "pwm_audio_stop"
  => /\ rb.head = 0 /\ rb.tail = 0
     /\ ~timer.counter_en /\ ~timer.intr_en
     /\ handle.status = "PWM_AUDIO_STATUS_IDLE"

\* C19: rb_flush runs only while the timer interrupt is inactive: once
\* pwm_audio_stop has paused the timer and disabled the interrupt, no
\* handler invocation is in progress until the flush is complete.
C19_FlushWithoutHandler ==
  task.pc = "stop" => isr.pc = "idle"

(***************************************************************************)
(* rb_write_byte in the producer against rb_read_byte in the handler, one  *)
(* step per access to head, tail or buf, with no flush.  task is the       *)
(* writer: pc, the argument indata, the local next_head and n, the number  *)
(* of calls made.  isr is the reader: pc, its local tail and the byte      *)
(* *outdata.  obs keeps the bytes of the writes that returned ESP_OK and   *)
(* of the reads that returned ESP_OK.                                      *)
(***************************************************************************)

\* Number of rb_write_byte calls followed: more than the buffer holds, so
\* that head and tail wrap.
MaxBytes == ringbuf_len + 2

\* The call rb_write_byte(rb, indata) with the next byte of the stream, and
\* line 218: next_head = rb->head + 1, wrapped at rb->size (lines 220-222).
PWriteCall ==
  /\ task.pc = "call" /\ task.n < MaxBytes
  /\ task' = [task EXCEPT
                !.pc = "full", !.indata = U8(task.n + 1), !.n = @ + 1,
                !.next_head = IF rb.head + 1 = rb.size THEN 0 ELSE rb.head + 1]
  /\ UNCHANGED <<rb, handle, timer, ledc, isr, api, obs>>

\* Line 224: next_head == rb->tail returns ESP_FAIL
PWriteFull ==
  /\ task.pc = "full"
  /\ task' = [task EXCEPT !.pc = IF task.next_head = rb.tail THEN "call"
                                 ELSE "buf"]
  /\ UNCHANGED <<rb, handle, timer, ledc, isr, api, obs>>

\* Line 229: rb->buf[rb->head] = indata
PWriteBuf ==
  /\ task.pc = "buf"
  /\ rb' = [rb EXCEPT !.buf[rb.head] = task.indata]
  /\ task' = [task EXCEPT !.pc = "head"]
  /\ UNCHANGED <<handle, timer, ledc, isr, api, obs>>

\* Lines 230-231: rb->head = next_head, return ESP_OK
PWriteHead ==
  /\ task.pc = "head"
  /\ rb' = [rb EXCEPT !.head = task.next_head]
  /\ task' = [task EXCEPT !.pc = "call"]
  /\ obs' = [obs EXCEPT !.written = Append(@, task.indata)]
  /\ UNCHANGED <<handle, timer, ledc, isr, api>>

\* The call rb_read_byte(rb, &outdata) and line 195: tail = rb->tail
PReadCall ==
  /\ isr.pc = "call"
  /\ isr' = [isr EXCEPT !.pc = "empty", !.tail = rb.tail]
  /\ UNCHANGED <<rb, handle, timer, ledc, task, api, obs>>

\* A read that does not compare tail with rb->head.
PReadAny ==
  /\ isr.pc = "empty"
  /\ isr' = [isr EXCEPT !.pc = "buf"]
  /\ UNCHANGED <<rb, handle, timer, ledc, task, api, obs>>

\* Line 197: tail == rb->head returns ESP_FAIL
PReadEmpty ==
  /\ isr.pc = "empty"
  /\ isr' = [isr EXCEPT !.pc = IF isr.tail = rb.head THEN "call" ELSE "buf"]
  /\ UNCHANGED <<rb, handle, timer, ledc, task, api, obs>>

\* Line 202: *outdata = rb->buf[tail]
PReadBuf ==
  /\ isr.pc = "buf"
  /\ isr' = [isr EXCEPT !.pc = "tail", !.outdata = rb.buf[isr.tail]]
  /\ UNCHANGED <<rb, handle, timer, ledc, task, api, obs>>

\* Lines 205-212: tail++, wrapped at rb->size, rb->tail = tail, return ESP_OK
PReadTail ==
  /\ isr.pc = "tail"
  /\ rb' = [rb EXCEPT !.tail = IF isr.tail + 1 = rb.size THEN 0
                               ELSE isr.tail + 1]
  /\ isr' = [isr EXCEPT !.pc = "call"]
  /\ obs' = [obs EXCEPT !.read = Append(@, isr.outdata)]
  /\ UNCHANGED <<handle, timer, ledc, task, api>>

InitSPSC ==
  /\ handle = [InitHandle(8, CHANNEL_LEFT_MASK + CHANNEL_RIGHT_MASK) EXCEPT
                 !.status = "PWM_AUDIO_STATUS_BUSY"]
  /\ rb = rb_create(ringbuf_len)
  /\ timer = [counter_en |-> TRUE, intr_en |-> TRUE]
  /\ ledc = [left |-> 0, right |-> 0]
  /\ isr = [pc |-> "call", tail |-> 0, outdata |-> 0]
  /\ task = [pc |-> "call", indata |-> 0, next_head |-> 0, n |-> 0]
  /\ api = NoCall
  /\ obs = [written |-> <<>>, read |-> <<>>]

NextSPSC ==
  \/ PWriteCall \/ PWriteFull \/ PWriteBuf \/ PWriteHead
  \/ PReadCall \/ PReadEmpty \/ PReadBuf \/ PReadTail

SpecSPSC == InitSPSC /\ [][NextSPSC]_vars

\* C21: with no flush, under every interleaving of the steps of
\* rb_write_byte and rb_read_byte, the bytes the successful reads returned
\* are a prefix of the bytes the successful writes stored, in their order.
C21_ReadsArePrefix ==
  /\ Len(obs.read) <= Len(obs.written)
  /\ obs.read = SubSeq(obs.written, 1, Len(obs.read))

\* C21: head has wrapped, the reader has returned bytes stored after the
\* wrap, and a write is between its store to buf and its store to head
\* while a read is between its load of buf and its store to tail.
C21_Witness ==
  /\ Len(obs.written) > rb.size /\ Len(obs.read) >= rb.size
  /\ task.pc = "head" /\ isr.pc = "tail"

(***************************************************************************)
(* pwm_audio_write against the handler at every sample width and duty      *)
(* resolution: mono data on the left channel, a session that is started.   *)
(***************************************************************************)

\* pwm_audio_set_param(44100, bits, 1) and pwm_audio_start have returned.
InitFill ==
  /\ \E bits \in {8, 16, 32}, res \in Resolutions :
       handle = [InitHandle(res, CHANNEL_LEFT_MASK) EXCEPT
                   !.framerate = 44100, !.bits_per_sample = bits,
                   !.channel_set_num = 1,
                   !.status = "PWM_AUDIO_STATUS_BUSY"]
  /\ rb = rb_create(ringbuf_len)
  /\ timer = [counter_en |-> TRUE, intr_en |-> TRUE]
  /\ ledc = [left |-> 0, right |-> 0]
  /\ isr = IsrIdle
  /\ task = TaskIdle
  /\ api = Returned("pwm_audio_start", "ESP_OK", 0, 0, 0)
  /\ obs = ObsInit

NextFill == Isr \/ Write

SpecFill == InitFill /\ [][NextFill]_vars

\* Ring-buffer bytes the conversion loop of the current wake has still to
\* store
wake_bytes_left ==
  (task.len - task.i)
    * write_sample_bytes(handle.bits_per_sample, handle.duty_resolution)
  - (IF task.high THEN 1 ELSE 0)

\* C22: inside pwm_audio_write no rb_write_byte fails: at every point of a
\* conversion loop the bytes it has still to store fit the free space, for
\* every sample width and duty resolution and wherever the handler's steps
\* fall.
C22_NoWriteFails ==
  /\ ~obs.wfail
  /\ task.pc = "conv" => wake_bytes_left <= rb_get_free(rb)

\* C23: for every channel mask pwm_audio_init accepts and for mono and
\* stereo data, a handler invocation that finds the ring buffer non-empty
\* consumes at least one byte.
C23_HandlerConsumes ==
  (TimerRuns /\ isr.pc = "idle" /\ rb.head # rb.tail)
  => NextPeriod(handle.channel_mask).nread >= 1

\* C24: whenever pwm_audio_write returns after its argument check, it
\* returns ESP_OK if and only if *bytes_written equals inbuf_len as passed.
C24_OkIffFullCount ==
  (api.op = "pwm_audio_write" /\ api.res # "ESP_ERR_INVALID_ARG")
  => (api.res = "ESP_OK" <=> api.n = api.req)

=============================================================================
